---- MODULE Spec2Model ----
(***************************************************************************)
(* A model of the night-sky simulator: the two SkySimulator classes        *)
(* (src/sky_simulator.py and src/sky_simulator_gui.py) and the tkinter     *)
(* front end SkySimulatorGUI.                                              *)
(*                                                                         *)
(* Numbers.  Magnitudes and marker sizes are decimal numbers with two      *)
(* places, held as integers in hundredths (magnitude 4.2 is 420, size 17   *)
(* is 1700), and the arithmetic on them is exact decimal arithmetic.       *)
(* IEEE rounding of the float64 values is not represented.  Angles are     *)
(* whole degrees, so the preset sites are rounded to whole degrees.  A     *)
(* datetime is its calendar fields (a day number, hour, minute; seconds    *)
(* are not represented) and a tzinfo that is None or a UTC offset in       *)
(* minutes.                                                                *)
(*                                                                         *)
(* The skyfield library (catalogue, ephemeris, timescale) is outside the   *)
(* repository.  It is represented by a fixed deterministic stand-in:       *)
(* altaz is a function of the star's coordinates, the observer's position  *)
(* and the instant and of nothing else.                                    *)
(***************************************************************************)
EXTENDS Integers, Sequences, FiniteSets, TLC

VARIABLES
    hipparcos,   \* the rows of the catalogue file behind hipparcos.URL
    sim,         \* the SkySimulator object: its class and its three attributes
    ret,         \* the last call on the simulator and what it returned or raised
    calls,       \* which of load_star_catalog, set_observer_location and
                 \* get_star_positions have returned normally
    probe_in,    \* two magnitudes handed to the size and colour computations
    probe_out,   \* None, or what the computations gave for probe_in
    gui,         \* the SkySimulatorGUI object (None where no window is built)
    root,        \* the Tk root window: "mainloop" or "destroyed"
    dialogs,     \* the message boxes the last event handler showed
    event,       \* the last event handled by the window
    events,      \* how many events the window has handled
    cutoff,      \* None, or the max_magnitude of the last load_star_catalog call
    plot,        \* what the last plotting call of src/sky_simulator.py printed and drew
    timers       \* the timers of the window's animations

vars_sim == <<hipparcos, sim, ret, calls, cutoff>>
vars_probe == <<probe_in, probe_out>>
vars_gui == <<gui, root, dialogs, event, events, timers>>
vars_plot == <<plot>>
vars == <<hipparcos, sim, ret, calls, probe_in, probe_out, gui, root, dialogs, event,
          events, cutoff, plot, timers>>

-----------------------------------------------------------------------------
(* Python's None and optional values *)

None == {}
Some(v) == {v}
The(o) == CHOOSE v \in o : TRUE

Abs(x) == IF x < 0 THEN -x ELSE x

-----------------------------------------------------------------------------
(* Bounds of the model *)

\* the longest catalogue file
MaxStars == 3
\* the probed magnitudes are 0.05 * k for k in -MagBelow .. MagAbove
MagBelow == 30
MagAbove == 130
\* the most events a window handles
MaxEvents == 5

-----------------------------------------------------------------------------
(* The catalogue *)

Star(h, r, d, m) ==
    [hip |-> h, ra_degrees |-> r, dec_degrees |-> d, magnitude |-> m]

\* The rows a catalogue file is drawn from, in the file's order (by HIP number)
StarPool ==
    << Star(11767, 30, 90, 200),
       Star(24436, 75, -10, 550),
       Star(32349, 105, -60, 400),
       Star(37279, 120, 10, 100),
       Star(68702, 210, -15, -146),
       Star(91262, 285, 40, 420),
       Star(97649, 300, 10, 50) >>

RECURSIVE Pick(_, _)
Pick(rows, S) ==
    IF rows = <<>> THEN <<>>
    ELSE LET rest == Pick(Tail(rows), {i - 1 : i \in S \ {1}})
         IN  IF 1 \in S THEN <<Head(rows)>> \o rest ELSE rest

\* The catalogue files: the sub-sequences of StarPool of at most MaxStars rows
CatalogFiles ==
    { Pick(StarPool, S) :
        S \in { T \in SUBSET (1 .. Len(StarPool)) : Cardinality(T) <= MaxStars } }

\* hipparcos.load_dataframe(f): the rows of the file, in order
load_dataframe(f) == f

-----------------------------------------------------------------------------
(* Time *)

datetime(d, h, mi, tz) == [day |-> d, hour |-> h, minute |-> mi, tzinfo |-> tz]

\* dt_timezone.utc, as its offset in minutes
utc == 0

\* time.replace(tzinfo=...): the calendar fields stay, the zone is set
replace_tzinfo(time, tz) == [time EXCEPT !.tzinfo = Some(tz)]

\* time.astimezone(dt_timezone.utc) of an aware datetime: the same instant in UTC
astimezone_utc(time) ==
    LET total == time.day * 1440 + time.hour * 60 + time.minute - The(time.tzinfo)
    IN  [day |-> total \div 1440,
         hour |-> (total % 1440) \div 60,
         minute |-> total % 60,
         tzinfo |-> Some(utc)]

\* self.ts.utc(year, month, day, hour, minute, second): the instant, in minutes
ts_utc(d, h, mi) == d * 1440 + h * 60 + mi

\* dt + timedelta(minutes=n)
plus_minutes(dt, n) ==
    LET total == dt.day * 1440 + dt.hour * 60 + dt.minute + n
    IN  [day |-> total \div 1440,
         hour |-> (total % 1440) \div 60,
         minute |-> total % 60,
         tzinfo |-> dt.tzinfo]

\* fault variant of int_quotient: the quotient is rounded away from zero
int_quotient_rounded_out(a, b) ==
    LET q == Abs(a) \div Abs(b)
        r == IF Abs(a) % Abs(b) = 0 THEN q ELSE q + 1
    IN  IF (a >= 0) = (b > 0) THEN r ELSE -r

\* int(a / b) for b # 0: the quotient cut towards zero
int_quotient(a, b) ==
    IF (a >= 0) = (b > 0) THEN Abs(a) \div Abs(b) ELSE -(Abs(a) \div Abs(b))

-----------------------------------------------------------------------------
(* The ephemeris *)

\* earth + Topos(latitude_degrees, longitude_degrees, elevation_m)
Topos(latitude, longitude, elevation) ==
    [latitude |-> latitude, longitude |-> longitude, elevation |-> elevation]

\* observer.observe(star).apparent().altaz(): the star's altitude and azimuth
\* in degrees for the observer at instant t.  The hour angle advances one
\* degree every four minutes.
altaz(star, location, t) ==
    LET H  == (t \div 4 + location.longitude - star.ra_degrees) % 360
        Hs == IF H > 180 THEN 360 - H ELSE H
        a  == 90 - Abs(location.latitude - star.dec_degrees) - Hs
    IN  [alt |-> IF a < -90 THEN -90 ELSE a, az |-> (H + 180) % 360]

-----------------------------------------------------------------------------
(* What a call gives back *)

Return(v) == [raised |-> None, value |-> Some(v)]
Raise(type, message) ==
    [raised |-> Some([type |-> type, message |-> message]), value |-> None]

\* np.clip(x, a_min, a_max) on one element
np_clip(x, a_min, a_max) == IF x < a_min THEN a_min ELSE IF x > a_max THEN a_max ELSE x

\* positions[:, k]: column k of the array of [az, alt] rows
column(positions, k) == [i \in 1 .. Len(positions) |-> positions[i][k]]

-----------------------------------------------------------------------------
(* class SkySimulator of src/sky_simulator.py *)

\* SkySimulator.__init__
sky_simulator_init ==
    [cls |-> "sky_simulator",
     stars_df |-> None, observer_location |-> None, observer_coords |-> None]

\* the filter self.stars_df[self.stars_df['magnitude'] <= max_magnitude]
within_cutoff(magnitude, max_magnitude) == magnitude <= max_magnitude

\* fault variant of load_star_catalog: a catalogue already in memory is
\* filtered again instead of the file being read
load_star_catalog_refilter(self, max_magnitude) ==
    LET stars_df == IF self.stars_df = None THEN load_dataframe(hipparcos)
                    ELSE The(self.stars_df)
    IN  [self EXCEPT !.stars_df =
            Some(SelectSeq(stars_df,
                           LAMBDA row : within_cutoff(row.magnitude, max_magnitude)))]

load_star_catalog(self, max_magnitude) ==
    LET stars_df == load_dataframe(hipparcos)
    IN  [self EXCEPT !.stars_df =
            Some(SelectSeq(stars_df,
                           LAMBDA row : within_cutoff(row.magnitude, max_magnitude)))]

\* fault variant of set_observer_location: the catalogue is dropped as well
set_observer_location_reset(self, latitude, longitude, elevation) ==
    [self EXCEPT !.observer_location = Some(Topos(latitude, longitude, elevation)),
                 !.observer_coords = Some(<<latitude, longitude>>),
                 !.stars_df = None]

set_observer_location(self, latitude, longitude, elevation) ==
    [self EXCEPT !.observer_location = Some(Topos(latitude, longitude, elevation)),
                 !.observer_coords = Some(<<latitude, longitude>>)]

\* fault variant of not_ready: "and" written for "or"
not_ready_both(self) == self.stars_df = None /\ self.observer_location = None

\* the guard of the ValueError
not_ready(self) == self.stars_df = None \/ self.observer_location = None

\* fault variant of utc_time_of: the replace() is missing, so astimezone()
\* reads a naive datetime as local time (here UTC-05:00)
utc_time_of_local(time) ==
    astimezone_utc(IF time.tzinfo = None THEN replace_tzinfo(time, -300) ELSE time)

\* naive datetimes are taken as UTC, then everything is converted to UTC
utc_time_of(time) ==
    astimezone_utc(IF time.tzinfo = None THEN replace_tzinfo(time, utc) ELSE time)

\* fault variant of above_horizon: ">=" written for ">"
above_horizon_or_on(alt_degrees) == alt_degrees >= 0

\* "Only include stars above horizon"
above_horizon(alt_degrees) == alt_degrees > 0

\* the loop over self.stars_df.iterrows(), from row i on
RECURSIVE iterrows(_, _, _, _)
iterrows(stars_df, observer, i, acc) ==
    IF i > Len(stars_df) THEN acc
    ELSE LET star_data == stars_df[i]
             aa == altaz(star_data, observer.location, observer.t)
         IN  IF above_horizon(aa.alt)
             THEN iterrows(stars_df, observer, i + 1,
                    [star_positions |-> Append(acc.star_positions, <<aa.az, aa.alt>>),
                     star_magnitudes |-> Append(acc.star_magnitudes, star_data.magnitude)])
             ELSE iterrows(stars_df, observer, i + 1, acc)

\* fault variant of magnitude_to_size: the "+ 1" is missing
magnitude_to_size_no_offset(magnitude) == np_clip(20 * (500 - magnitude), 100, 5000)

\* sizes = 20 * (5 - magnitudes) + 1, clipped to [1, 50], for one magnitude
magnitude_to_size(magnitude) == np_clip(20 * (500 - magnitude) + 100, 100, 5000)

\* what get_star_positions returns once the loop has run
positions_result(acc) ==
    IF acc.star_positions = <<>>
    THEN Return(<< <<>>, <<>>, <<>> >>)
    ELSE LET positions == acc.star_positions
             magnitudes == acc.star_magnitudes
             sizes == [i \in 1 .. Len(magnitudes) |-> magnitude_to_size(magnitudes[i])]
         IN  Return(<<column(positions, 1), column(positions, 2), sizes>>)

\* fault variant of after_get_star_positions: the rows found above the horizon
\* are written back to self.stars_df
after_get_star_positions_keeps_visible(self, time, timezone) ==
    IF not_ready(self) THEN self
    ELSE LET utc_time == utc_time_of(time)
             t == ts_utc(utc_time.day, utc_time.hour, utc_time.minute)
         IN  [self EXCEPT !.stars_df =
                Some(SelectSeq(The(@),
                     LAMBDA row : above_horizon(altaz(row, The(self.observer_location), t).alt)))]

\* self once get_star_positions has run: the method assigns to local names only
after_get_star_positions(self, time, timezone) == self

\* fault variant of get_star_positions: a datetime without a zone is read in
\* the zone the timezone argument names
get_star_positions_in_named_zone(self, time, timezone) ==
    IF not_ready(self)
    THEN Raise("ValueError", "Must load star catalog and set observer location first")
    ELSE LET local == IF time.tzinfo = None /\ timezone = "America/New_York"
                      THEN replace_tzinfo(time, -300)
                      ELSE time
             utc_time == utc_time_of(local)
             t == ts_utc(utc_time.day, utc_time.hour, utc_time.minute)
             observer == [location |-> The(self.observer_location), t |-> t]
         IN  positions_result(
                 iterrows(The(self.stars_df), observer, 1,
                          [star_positions |-> <<>>, star_magnitudes |-> <<>>]))

get_star_positions(self, time, timezone) ==
    IF not_ready(self)
    THEN Raise("ValueError", "Must load star catalog and set observer location first")
    ELSE IF self.observer_location = None \/ self.stars_df = None
    THEN Raise("AttributeError", "'NoneType' object has no attribute")
    ELSE LET utc_time == utc_time_of(time)
             t == ts_utc(utc_time.day, utc_time.hour, utc_time.minute)
             observer == [location |-> The(self.observer_location), t |-> t]
         IN  positions_result(
                 iterrows(The(self.stars_df), observer, 1,
                          [star_positions |-> <<>>, star_magnitudes |-> <<>>]))

-----------------------------------------------------------------------------
(* The plotting methods of src/sky_simulator.py.  A call gives what it       *)
(* raised, the lines it printed, the figure it saved or showed, and the       *)
(* position queries it made.                                                  *)

Plotted(op, queries, printed, figure) ==
    [op |-> op, raised |-> None, printed |-> printed, figure |-> figure,
     queries |-> queries]

PlotRaised(op, queries, e) ==
    [op |-> op, raised |-> Some(e), printed |-> <<>>, figure |-> None,
     queries |-> queries]

\* one call self.get_star_positions(time, timezone) and what it gave
position_query(self, time, timezone) ==
    [time |-> time, timezone |-> timezone,
     result |-> get_star_positions(self, time, timezone)]

\* ax.scatter(az_rad, 90 - alt, s=sizes, ...)
scatter(out) == [k \in 1 .. Len(out[1]) |-> <<out[1][k], 90 - out[2][k], out[3][k]>>]

\* the title: a heading, a time and self.observer_coords ("Unknown" when None)
plot_title(self, heading, time) ==
    [heading |-> heading, time |-> time, location |-> self.observer_coords]

plot_sky(self, time, timezone) ==
    LET q == position_query(self, time, timezone)
    IN  IF q.result.raised # None
        THEN PlotRaised("plot_sky", <<q>>, The(q.result.raised))
        ELSE LET out == The(q.result.value)
             IN  IF Len(out[1]) = 0
                 THEN Plotted("plot_sky", <<q>>,
                              <<"No stars visible at this time/location">>, None)
                 ELSE Plotted("plot_sky", <<q>>, <<>>,
                              Some([layers |-> <<scatter(out)>>,
                                    title |-> plot_title(self, "Sky View", time)]))

\* num_frames = int(duration_hours * 60 / interval_minutes)
num_frames_of(duration_hours, interval_minutes) ==
    IF interval_minutes = 0
    THEN Raise("ZeroDivisionError", "division by zero")
    ELSE Return(int_quotient(duration_hours * 60, interval_minutes))

\* start_time + timedelta(minutes=i * interval_minutes) for i in range(num_frames)
frame_times(start_time, num_frames, interval_minutes) ==
    [i \in 1 .. num_frames |-> plus_minutes(start_time, (i - 1) * interval_minutes)]

\* the loop "for i, time in enumerate(times)" of create_star_trails: one
\* scatter for a frame with stars, a warning for a first frame without
trail_layers(queries) ==
    [i \in 1 .. Len(queries) |->
        LET out == The(queries[i].result.value)
        IN  IF Len(out[1]) > 0 THEN [drawn |-> TRUE, stars |-> scatter(out), text |-> ""]
            ELSE [drawn |-> FALSE, stars |-> <<>>, text |-> ""]]

trail_printed(queries) ==
    IF Len(queries) > 0 /\ Len(The(queries[1].result.value)[1]) = 0
    THEN <<"Warning: No stars visible at start time">>
    ELSE <<>>

create_star_trails(self, start_time, duration_hours, interval_minutes, timezone) ==
    LET num_frames == num_frames_of(duration_hours, interval_minutes)
    IN  IF num_frames.raised # None
        THEN PlotRaised("create_star_trails", <<>>, The(num_frames.raised))
        ELSE
    LET times == frame_times(start_time, The(num_frames.value), interval_minutes)
        queries == [i \in 1 .. Len(times) |-> position_query(self, times[i], timezone)]
    IN  IF Len(queries) > 0 /\ queries[1].result.raised # None
        THEN PlotRaised("create_star_trails", <<queries[1]>>,
                        The(queries[1].result.raised))
        ELSE Plotted("create_star_trails", queries, trail_printed(queries),
                     Some([layers |-> trail_layers(queries),
                           title |-> plot_title(self, "Star Trails", start_time)]))

\* animate(frame) of animate_sky: the axes are cleared and drawn afresh
animate(self, start_time, interval_minutes, timezone, frame) ==
    LET current_time == plus_minutes(start_time, frame * interval_minutes)
        q == position_query(self, current_time, timezone)
    IN  [query |-> q,
         layer |-> IF q.result.raised # None THEN None
                   ELSE LET out == The(q.result.value)
                        IN  Some([drawn |-> Len(out[1]) > 0,
                                  stars |-> IF Len(out[1]) > 0 THEN scatter(out) ELSE <<>>,
                                  text |-> "",
                                  title |-> plot_title(self, "Sky Animation", current_time)])]

\* animate_sky: the frames 0 .. num_frames - 1 as anim.save() plays them
animate_sky(self, start_time, duration_hours, interval_minutes, timezone) ==
    LET num_frames == num_frames_of(duration_hours, interval_minutes)
    IN  IF num_frames.raised # None
        THEN PlotRaised("animate_sky", <<>>, The(num_frames.raised))
        ELSE
    LET n == IF The(num_frames.value) > 0 THEN The(num_frames.value) ELSE 0
        frames == [i \in 1 .. n |->
                      animate(self, start_time, interval_minutes, timezone, i - 1)]
        queries == [i \in 1 .. n |-> frames[i].query]
    IN  IF n > 0 /\ frames[1].layer = None
        THEN PlotRaised("animate_sky", <<queries[1]>>, The(queries[1].result.raised))
        ELSE Plotted("animate_sky", queries, <<>>,
                     Some([layers |-> [i \in 1 .. n |-> The(frames[i].layer)],
                           title |-> None]))

-----------------------------------------------------------------------------
(* class SkySimulator of src/sky_simulator_gui.py *)

\* SkySimulator.__init__
gui_sky_simulator_init ==
    [cls |-> "sky_simulator_gui",
     stars_df |-> None, observer_location |-> None, observer_coords |-> None]

\* the filter self.stars_df[self.stars_df['magnitude'] <= max_magnitude]
gui_within_cutoff(magnitude, max_magnitude) == magnitude <= max_magnitude

gui_load_star_catalog(self, max_magnitude) ==
    LET stars_df == load_dataframe(hipparcos)
    IN  [self EXCEPT !.stars_df =
            Some(SelectSeq(stars_df,
                           LAMBDA row : gui_within_cutoff(row.magnitude, max_magnitude)))]

gui_set_observer_location(self, latitude, longitude, elevation) ==
    [self EXCEPT !.observer_location = Some(Topos(latitude, longitude, elevation)),
                 !.observer_coords = Some(<<latitude, longitude>>)]

\* the guard of the ValueError
gui_not_ready(self) == self.stars_df = None \/ self.observer_location = None

\* fault variant of gui_utc_time_of: the astimezone() is missing, so the
\* calendar fields of the zone's wall clock are handed to ts.utc
gui_utc_time_of_wall_clock(time) == replace_tzinfo(time, utc)

\* "Ensure timezone-aware datetime", then everything is converted to UTC
gui_utc_time_of(time) ==
    astimezone_utc(IF time.tzinfo = None THEN replace_tzinfo(time, utc) ELSE time)

\* fault variant of gui_above_horizon: ">=" written for ">"
gui_above_horizon_or_on(alt_degrees) == alt_degrees >= 0

\* "Only include stars above horizon"
gui_above_horizon(alt_degrees) == alt_degrees > 0

\* fault variant of star_color: "<=" written for "<"
star_color_closed_above(mag) ==
    IF mag <= 100 THEN "#87CEEB"
    ELSE IF mag <= 200 THEN "white"
    ELSE IF mag <= 300 THEN "#FFE4B5"
    ELSE IF mag <= 400 THEN "#FFA500"
    ELSE "#FF6B6B"

\* "Color based on magnitude": the if/elif chain on mag
star_color(mag) ==
    IF mag < 100 THEN "#87CEEB"
    ELSE IF mag < 200 THEN "white"
    ELSE IF mag < 300 THEN "#FFE4B5"
    ELSE IF mag < 400 THEN "#FFA500"
    ELSE "#FF6B6B"

\* fault variant of gui_iterrows: magnitude and colour are appended for every
\* row, outside the "if alt.degrees > 0"
RECURSIVE gui_iterrows_every_row(_, _, _, _)
gui_iterrows_every_row(stars_df, observer, i, acc) ==
    IF i > Len(stars_df) THEN acc
    ELSE LET star_data == stars_df[i]
             aa == altaz(star_data, observer.location, observer.t)
             more == [acc EXCEPT
                        !.star_magnitudes = Append(@, star_data.magnitude),
                        !.star_colors = Append(@, star_color(star_data.magnitude))]
         IN  IF gui_above_horizon(aa.alt)
             THEN gui_iterrows_every_row(stars_df, observer, i + 1,
                    [more EXCEPT !.star_positions = Append(@, <<aa.az, aa.alt>>)])
             ELSE gui_iterrows_every_row(stars_df, observer, i + 1, more)

\* the loop over self.stars_df.iterrows(), from row i on
RECURSIVE gui_iterrows(_, _, _, _)
gui_iterrows(stars_df, observer, i, acc) ==
    IF i > Len(stars_df) THEN acc
    ELSE LET star_data == stars_df[i]
             aa == altaz(star_data, observer.location, observer.t)
         IN  IF gui_above_horizon(aa.alt)
             THEN gui_iterrows(stars_df, observer, i + 1,
                    [star_positions |-> Append(acc.star_positions, <<aa.az, aa.alt>>),
                     star_magnitudes |-> Append(acc.star_magnitudes, star_data.magnitude),
                     star_colors |-> Append(acc.star_colors, star_color(star_data.magnitude))])
             ELSE gui_iterrows(stars_df, observer, i + 1, acc)

\* fault variant of gui_magnitude_to_size: the difference is taken the wrong
\* way round
gui_magnitude_to_size_reversed(magnitude) ==
    np_clip(20 * (magnitude - 500) + 100, 100, 5000)

\* sizes = 20 * (5 - magnitudes) + 1, clipped to [1, 50], for one magnitude
gui_magnitude_to_size(magnitude) == np_clip(20 * (500 - magnitude) + 100, 100, 5000)

\* fault variant of gui_positions_result: the "if not star_positions" return is
\* missing, and positions[:, 0] of an empty array raises IndexError
gui_positions_result_unguarded(acc) ==
    IF acc.star_positions = <<>>
    THEN Raise("IndexError", "too many indices for array")
    ELSE LET positions == acc.star_positions
             magnitudes == acc.star_magnitudes
             colors == acc.star_colors
             sizes == [i \in 1 .. Len(magnitudes) |-> gui_magnitude_to_size(magnitudes[i])]
         IN  Return(<<column(positions, 1), column(positions, 2), sizes, colors>>)

\* what get_star_positions returns once the loop has run
gui_positions_result(acc) ==
    IF acc.star_positions = <<>>
    THEN Return(<< <<>>, <<>>, <<>>, <<>> >>)
    ELSE LET positions == acc.star_positions
             magnitudes == acc.star_magnitudes
             colors == acc.star_colors
             sizes == [i \in 1 .. Len(magnitudes) |-> gui_magnitude_to_size(magnitudes[i])]
         IN  Return(<<column(positions, 1), column(positions, 2), sizes, colors>>)

\* self once get_star_positions has run: the method assigns to local names only
gui_after_get_star_positions(self, time, timezone) == self

gui_get_star_positions(self, time, timezone) ==
    IF gui_not_ready(self)
    THEN Raise("ValueError", "Must load star catalog and set observer location first")
    ELSE IF self.observer_location = None \/ self.stars_df = None
    THEN Raise("AttributeError", "'NoneType' object has no attribute")
    ELSE LET utc_time == gui_utc_time_of(time)
             t == ts_utc(utc_time.day, utc_time.hour, utc_time.minute)
             observer == [location |-> The(self.observer_location), t |-> t]
         IN  gui_positions_result(
                 gui_iterrows(The(self.stars_df), observer, 1,
                     [star_positions |-> <<>>, star_magnitudes |-> <<>>,
                      star_colors |-> <<>>]))

-----------------------------------------------------------------------------
(* Calls on a simulator object of either class *)

IsGui(self) == self.cls = "sky_simulator_gui"

do_load_star_catalog(self, max_magnitude) ==
    IF IsGui(self) THEN gui_load_star_catalog(self, max_magnitude)
    ELSE load_star_catalog(self, max_magnitude)

do_set_observer_location(self, latitude, longitude, elevation) ==
    IF IsGui(self) THEN gui_set_observer_location(self, latitude, longitude, elevation)
    ELSE set_observer_location(self, latitude, longitude, elevation)

do_get_star_positions(self, time, timezone) ==
    IF IsGui(self) THEN gui_get_star_positions(self, time, timezone)
    ELSE get_star_positions(self, time, timezone)

do_after_get_star_positions(self, time, timezone) ==
    IF IsGui(self) THEN gui_after_get_star_positions(self, time, timezone)
    ELSE after_get_star_positions(self, time, timezone)

\* The arguments the calls are made with
Cutoffs == {100, 450, 600}
Sites == { <<40, -75, 0>>, <<-35, 150, 0>>, <<50, 0, 100>> }
Times ==
    { datetime(1, 6, 0, None), datetime(1, 22, 0, None),
      datetime(1, 6, 0, Some(utc)), datetime(1, 22, 0, Some(utc)),
      datetime(2, 6, 0, Some(480)), datetime(1, 17, 0, Some(-300)) }
TimezoneNames == {"UTC", "America/New_York"}

NoCall == [op |-> "__init__", raised |-> None, value |-> None,
           time |-> None, timezone |-> None]

\* Nothing has been plotted
NoPlot == [args |-> None, res |-> Plotted("none", <<>>, <<>>, None)]

\* No animation has been created: the number of timers running, and the
\* animation of a stopped timer that may still have a callback queued
NoTimers == [started |-> 0, stopped |-> None]

InitSim ==
    /\ hipparcos \in CatalogFiles
    /\ sim \in {sky_simulator_init, gui_sky_simulator_init}
    /\ ret = NoCall
    /\ calls = {}
    /\ cutoff = None
    /\ plot = NoPlot
    /\ timers = NoTimers
    /\ probe_in = <<0, 0>>
    /\ probe_out = None
    /\ gui = None
    /\ root = "destroyed"
    /\ dialogs = <<>>
    /\ event = "none"
    /\ events = 0

LoadStarCatalog ==
    \E max_magnitude \in Cutoffs :
        /\ sim' = do_load_star_catalog(sim, max_magnitude)
        /\ ret' = [NoCall EXCEPT !.op = "load_star_catalog"]
        /\ calls' = calls \cup {"load_star_catalog"}
        /\ cutoff' = Some(max_magnitude)
        /\ UNCHANGED <<hipparcos, vars_probe, vars_gui, vars_plot>>

SetObserverLocation ==
    \E site \in Sites :
        /\ sim' = do_set_observer_location(sim, site[1], site[2], site[3])
        /\ ret' = [NoCall EXCEPT !.op = "set_observer_location"]
        /\ calls' = calls \cup {"set_observer_location"}
        /\ UNCHANGED <<hipparcos, cutoff, vars_probe, vars_gui, vars_plot>>

GetStarPositions ==
    \E time \in Times, timezone \in TimezoneNames :
        LET r == do_get_star_positions(sim, time, timezone)
        IN  /\ sim' = do_after_get_star_positions(sim, time, timezone)
            /\ ret' = [op |-> "get_star_positions", raised |-> r.raised,
                       value |-> r.value, time |-> Some(time),
                       timezone |-> Some(timezone)]
            /\ calls' = IF r.raised = None THEN calls \cup {"get_star_positions"}
                        ELSE calls
            /\ UNCHANGED <<hipparcos, cutoff, vars_probe, vars_gui, vars_plot>>

NextSim == LoadStarCatalog \/ SetObserverLocation \/ GetStarPositions

SpecSim == InitSim /\ [][NextSim]_vars

-----------------------------------------------------------------------------
(* A script that plots with the simulator of src/sky_simulator.py *)

\* The arguments the plotting calls are made with
PlotCatalogFiles ==
    { Pick(StarPool, {3}), Pick(StarPool, {1, 6, 7}), Pick(StarPool, {4, 5}) }
StartTimes == { datetime(1, 22, 0, None), datetime(1, 17, 0, Some(-300)) }
\* duration_hours and interval_minutes
Schedules ==
    { <<1, 30>>, <<2, 45>>, <<1, 0>>, <<-1, -30>>, <<-1, 90>> }

PlotArgs(time, duration_hours, interval_minutes, timezone) ==
    [time |-> time, duration_hours |-> duration_hours,
     interval_minutes |-> interval_minutes, timezone |-> timezone]

InitPlot ==
    /\ hipparcos \in PlotCatalogFiles
    /\ sim = sky_simulator_init
    /\ ret = NoCall
    /\ calls = {}
    /\ cutoff = None
    /\ plot = NoPlot
    /\ timers = NoTimers
    /\ probe_in = <<0, 0>>
    /\ probe_out = None
    /\ gui = None
    /\ root = "destroyed"
    /\ dialogs = <<>>
    /\ event = "none"
    /\ events = 0

\* The plotting call has run: what it did becomes the state
PlotCalled(args, res) ==
    /\ plot' = [args |-> Some(args), res |-> res]
    /\ ret' = [NoCall EXCEPT !.op = res.op, !.raised = res.raised]
    /\ calls' = IF \E i \in 1 .. Len(res.queries) : res.queries[i].result.raised = None
                THEN calls \cup {"get_star_positions"}
                ELSE calls
    /\ UNCHANGED <<hipparcos, sim, cutoff, vars_probe, vars_gui>>

PlotSky ==
    \E time \in StartTimes, timezone \in TimezoneNames :
        PlotCalled(PlotArgs(time, None, None, timezone), plot_sky(sim, time, timezone))

CreateStarTrails ==
    \E start_time \in StartTimes, sch \in Schedules, timezone \in TimezoneNames :
        PlotCalled(PlotArgs(start_time, Some(sch[1]), Some(sch[2]), timezone),
                   create_star_trails(sim, start_time, sch[1], sch[2], timezone))

AnimateSky ==
    \E start_time \in StartTimes, sch \in Schedules, timezone \in TimezoneNames :
        PlotCalled(PlotArgs(start_time, Some(sch[1]), Some(sch[2]), timezone),
                   animate_sky(sim, start_time, sch[1], sch[2], timezone))

NextPlot ==
    \/ LoadStarCatalog \/ SetObserverLocation
    \/ PlotSky \/ CreateStarTrails \/ AnimateSky

SpecPlot == InitPlot /\ [][NextPlot]_vars

-----------------------------------------------------------------------------
(* Texts of the entry fields and the conversions between texts and values *)

Text(kind, a, b) == [kind |-> kind, a |-> a, b |-> b]

\* a text no conversion accepts
Junk == Text("junk", 0, 0)

\* str(x) of a number
str(x) == Text("number", x, 0)

\* float(text)
float(text) ==
    IF text.kind = "number" THEN Return(text.a)
    ELSE Raise("ValueError", "could not convert string to float")

\* dt.strftime("%Y-%m-%d") and dt.strftime("%H:%M"): the zone is not printed
strftime_date(dt) == Text("%Y-%m-%d", dt.day, 0)
strftime_time(dt) == Text("%H:%M", dt.hour, dt.minute)

\* datetime.strptime(f"{date_str} {time_str}", "%Y-%m-%d %H:%M")
strptime(date_str, time_str) ==
    IF date_str.kind = "%Y-%m-%d" /\ time_str.kind = "%H:%M"
    THEN Return(datetime(date_str.a, time_str.a, time_str.b, None))
    ELSE Raise("ValueError", "time data does not match format")

Status(text, a, b) == [text |-> text, a |-> a, b |-> b]

-----------------------------------------------------------------------------
(* class SkySimulatorGUI.  A handler works on st: the window object, its      *)
(* simulator, the simulator's last call, and the message boxes shown so far. *)

\* messagebox.showerror(title, f"{prefix}: {str(e)}")
showerror(st, title, prefix, e) ==
    [st EXCEPT !.dialogs =
        Append(@, [title |-> title, prefix |-> prefix, detail |-> e.message])]

\* self.simulator.load_star_catalog(max_magnitude=...)
simulator_load_star_catalog(st, max_magnitude) ==
    [st EXCEPT !.sim = gui_load_star_catalog(@, max_magnitude),
               !.cutoff = Some(max_magnitude),
               !.ret = [NoCall EXCEPT !.op = "load_star_catalog"],
               !.calls = @ \cup {"load_star_catalog"}]

\* self.simulator.set_observer_location(self.latitude, self.longitude)
simulator_set_observer_location(st) ==
    [st EXCEPT !.sim = gui_set_observer_location(@, st.gui.latitude, st.gui.longitude, 0),
               !.ret = [NoCall EXCEPT !.op = "set_observer_location"],
               !.calls = @ \cup {"set_observer_location"}]

\* self.simulator.get_star_positions(current_time)
simulator_get_star_positions(st, current_time) ==
    LET r == gui_get_star_positions(st.sim, current_time, "UTC")
    IN  [st EXCEPT !.sim = gui_after_get_star_positions(@, current_time, "UTC"),
                   !.ret = [op |-> "get_star_positions", raised |-> r.raised,
                            value |-> r.value, time |-> Some(current_time),
                            timezone |-> Some("UTC")],
                   !.calls = IF r.raised = None THEN @ \cup {"get_star_positions"} ELSE @]

\* self.ax.clear(); self.setup_plot()
setup_plot == [scatter |-> <<>>, text |-> "", title |-> None]

\* the scatter of the stars at (az, 90 - alt), or the text "No stars visible",
\* under the given title
draw_stars(out, title) ==
    [scatter |-> [k \in 1 .. Len(out[1]) |-> <<out[1][k], 90 - out[2][k], out[3][k], out[4][k]>>],
     text |-> IF Len(out[1]) > 0 THEN "" ELSE "No stars visible",
     title |-> Some(title)]

\* fault variant of parse_time: a text that does not parse falls back to
\* self.current_time instead of raising
parse_time_fallback(self) ==
    LET dt == strptime(self.date_var, self.time_var)
    IN  IF dt.raised # None
        THEN Return(replace_tzinfo(self.current_time, utc))
        ELSE Return(IF The(dt.value).tzinfo = None
                    THEN replace_tzinfo(The(dt.value), utc)
                    ELSE The(dt.value))

parse_time(self) ==
    LET dt == strptime(self.date_var, self.time_var)
    IN  IF dt.raised # None
        THEN Raise("ValueError", "Invalid date/time format")
        ELSE Return(IF The(dt.value).tzinfo = None
                    THEN replace_tzinfo(The(dt.value), utc)
                    ELSE The(dt.value))

\* the except branch of update_sky
update_sky_except(st, e) ==
    [showerror(st, "Update Error", "Failed to update sky", e)
        EXCEPT !.gui.status_var = Status("Error", 0, 0)]

update_sky(st) ==
    LET lat == float(st.gui.lat_var)
    IN  IF lat.raised # None THEN update_sky_except(st, The(lat.raised)) ELSE
    LET st1 == [st EXCEPT !.gui.latitude = The(lat.value)]
        lon == float(st.gui.lon_var)
    IN  IF lon.raised # None THEN update_sky_except(st1, The(lon.raised)) ELSE
    LET st2 == [st1 EXCEPT !.gui.longitude = The(lon.value)]
        current_time == parse_time(st2.gui)
    IN  IF current_time.raised # None
        THEN update_sky_except(st2, The(current_time.raised)) ELSE
    LET st3 == simulator_set_observer_location(st2)
        st4 == simulator_get_star_positions(st3, The(current_time.value))
    IN  IF st4.ret.raised # None THEN update_sky_except(st4, The(st4.ret.raised)) ELSE
    LET out == The(st4.ret.value)
        title == [kind |-> "Sky View", time |-> The(current_time.value),
                  latitude |-> st4.gui.latitude, longitude |-> st4.gui.longitude,
                  frame |-> 0, of |-> 0]
    IN  [st4 EXCEPT !.gui.ax = draw_stars(out, title),
                    !.gui.status_var = Status("Updated - stars visible", Len(out[1]), 0)]

initialize_simulator(st) ==
    LET st1 == [st EXCEPT !.gui.status_var = Status("Loading star catalog...", 0, 0)]
        st2 == simulator_load_star_catalog(st1, st1.gui.max_magnitude)
        st3 == update_sky(simulator_set_observer_location(st2))
    IN  [st3 EXCEPT !.gui.status_var = Status("Ready", 0, 0)]

update_magnitude(st, mag) ==
    LET st1 == [st EXCEPT !.gui.mag_label = mag]
    IN  IF st1.sim.stars_df = None THEN st1
        ELSE LET st2 == [st1 EXCEPT !.gui.status_var = Status("Reloading star catalog...", 0, 0)]
                 st3 == update_sky(simulator_load_star_catalog(st2, mag))
             IN  [st3 EXCEPT !.gui.status_var = Status("Ready", 0, 0)]

use_current_time(st, now) ==
    update_sky([st EXCEPT !.gui.date_var = strftime_date(now),
                          !.gui.time_var = strftime_time(now),
                          !.gui.current_time = now])

set_location(st, lat, lon) ==
    update_sky([st EXCEPT !.gui.lat_var = str(lat),
                          !.gui.lon_var = str(lon),
                          !.gui.latitude = lat,
                          !.gui.longitude = lon])

\* self.animation.event_source.stop(): the timer runs no more; a callback
\* it had queued may still be delivered
event_source_stop(tm, animation) ==
    [started |-> tm.started - 1, stopped |-> Some(animation)]

stop_animation(st) ==
    [st EXCEPT !.timers = IF st.gui.animation = None THEN @
                          ELSE event_source_stop(@, The(st.gui.animation)),
               !.gui.animation_running = FALSE,
               !.gui.animation = None,
               !.gui.animate_button = "Start Animation",
               !.gui.status_var = Status("Animation stopped", 0, 0)]

\* fault variant of start_animation_except: the stop_animation() is missing
start_animation_except_no_stop(st, e) ==
    showerror(st, "Animation Error", "Failed to start animation", e)

\* the except branch of start_animation
start_animation_except(st, e) ==
    stop_animation(showerror(st, "Animation Error", "Failed to start animation", e))

\* FuncAnimation(self.fig, self.update_animation_frame, frames=num_frames,
\* interval=100, repeat=True): the timer of the animation and the frame it
\* hands to the callback next
FuncAnimation(num_frames) ==
    [frames |-> num_frames, frame |-> 0, event_source |-> "started"]

start_animation(st) ==
    LET duration == float(st.gui.duration_var)
    IN  IF duration.raised # None
        THEN start_animation_except(st, The(duration.raised)) ELSE
    LET interval == float(st.gui.interval_var)
    IN  IF interval.raised # None
        THEN start_animation_except(st, The(interval.raised)) ELSE
    LET start_time == parse_time(st.gui)
    IN  IF start_time.raised # None
        THEN start_animation_except(st, The(start_time.raised)) ELSE
    LET st1 == [st EXCEPT !.gui.animation_running = TRUE,
                          !.gui.animate_button = "Stop Animation",
                          !.gui.status_var = Status("Animation running...", 0, 0)]
    IN  IF The(interval.value) = 0
        THEN start_animation_except(st1,
                 [type |-> "ZeroDivisionError", message |-> "float division by zero"])
        ELSE
    LET num_frames == int_quotient(The(duration.value) * 60, The(interval.value))
        animation_times ==
            [i \in 1 .. num_frames |->
                plus_minutes(The(start_time.value), (i - 1) * The(interval.value))]
    IN  [st1 EXCEPT !.gui.animation_times = animation_times,
                    !.gui.animation = Some(FuncAnimation(num_frames)),
                    !.timers.started = @ + 1]

toggle_animation(st) ==
    IF ~st.gui.animation_running THEN start_animation(st) ELSE stop_animation(st)

\* update_animation_frame from "current_time = self.animation_times[frame]" on
draw_animation_frame(st, frame) ==
    IF frame + 1 > Len(st.gui.animation_times)
    THEN [st EXCEPT !.gui.status_var = Status("Animation frame error", 0, 0)]
    ELSE
    LET current_time == st.gui.animation_times[frame + 1]
        st1 == [st EXCEPT !.gui.date_var = strftime_date(current_time),
                          !.gui.time_var = strftime_time(current_time)]
        st2 == simulator_get_star_positions(st1, current_time)
    IN  IF st2.ret.raised # None
        THEN [st2 EXCEPT !.gui.status_var = Status("Animation frame error", 0, 0)]
        ELSE
    LET out == The(st2.ret.value)
        title == [kind |-> "Sky Animation", time |-> current_time,
                  latitude |-> st2.gui.latitude, longitude |-> st2.gui.longitude,
                  frame |-> frame + 1, of |-> Len(st2.gui.animation_times)]
    IN  [st2 EXCEPT !.gui.ax = draw_stars(out, title),
                    !.gui.status_var =
                        Status("Animation - Frame", frame + 1, Len(st2.gui.animation_times))]

\* fault variant of update_animation_frame: the "if not self.animation_running"
\* return is missing
update_animation_frame_unguarded(st, frame) == draw_animation_frame(st, frame)

update_animation_frame(st, frame) ==
    IF ~st.gui.animation_running THEN st ELSE draw_animation_frame(st, frame)

\* on_closing, up to self.root.quit()
on_closing(st) ==
    [st EXCEPT !.timers = IF st.gui.animation = None THEN @
                          ELSE event_source_stop(@, The(st.gui.animation)),
               !.gui.animation_running = FALSE,
               !.gui.animation =
                   IF @ = None THEN None
                   ELSE Some([The(@) EXCEPT !.event_source = "stopped"])]

\* SkySimulatorGUI.__init__ up to initialize_simulator(), at local time now;
\* the default site 40.7128, -74.0060 in whole degrees of the ephemeris grid
gui_init(now) ==
    [current_time |-> now,
     animation_running |-> FALSE,
     animation |-> None,
     animation_times |-> <<>>,
     latitude |-> 40,
     longitude |-> -75,
     max_magnitude |-> 450,
     lat_var |-> str(40),
     lon_var |-> str(-75),
     date_var |-> strftime_date(now),
     time_var |-> strftime_time(now),
     mag_label |-> 450,
     duration_var |-> str(2),
     interval_var |-> str(10),
     animate_button |-> "Start Animation",
     ax |-> setup_plot,
     status_var |-> Status("Ready", 0, 0)]

-----------------------------------------------------------------------------
(* The window and its events *)

\* What the user does with the window
NowTimes == { datetime(1, 22, 0, None) }
GuiCatalogFiles == { Pick(StarPool, {3}), Pick(StarPool, {1, 6, 7}) }
Presets == { <<-35, 150>> }
Magnitudes == {100, 450}
LocationTexts == { <<Junk, str(0)>>, <<str(50), Junk>> }
DateTimeTexts ==
    { <<Text("%Y-%m-%d", 1, 0), Text("%H:%M", 6, 0)>>,
      <<Junk, Text("%H:%M", 6, 0)>>,
      <<Text("%Y-%m-%d", 1, 0), Junk>> }
AnimationTexts ==
    { <<str(1), str(30)>>, <<str(1), str(90)>>, <<str(1), str(0)>>,
      <<Junk, str(30)>>, <<str(1), Junk>>,
      <<str(-1), str(-30)>>, <<str(-1), str(90)>> }

Here == [gui |-> gui, sim |-> sim, ret |-> ret, calls |-> calls, cutoff |-> cutoff,
         timers |-> timers, dialogs |-> <<>>]

\* The handler has run: its effects become the state
Handled(name, st) ==
    /\ gui' = st.gui
    /\ sim' = st.sim
    /\ ret' = st.ret
    /\ calls' = st.calls
    /\ dialogs' = st.dialogs
    /\ event' = name
    /\ events' = events + 1
    /\ cutoff' = st.cutoff
    /\ timers' = st.timers
    /\ UNCHANGED <<hipparcos, root, vars_probe, vars_plot>>

InitGui ==
    /\ hipparcos \in GuiCatalogFiles
    /\ \E now \in NowTimes :
         LET st == initialize_simulator(
                       [gui |-> gui_init(now), sim |-> gui_sky_simulator_init,
                        ret |-> NoCall, calls |-> {}, cutoff |-> None,
                        timers |-> NoTimers, dialogs |-> <<>>])
         IN  /\ gui = st.gui
             /\ cutoff = st.cutoff
             /\ timers = st.timers
             /\ sim = st.sim
             /\ ret = st.ret
             /\ calls = st.calls
             /\ dialogs = st.dialogs
    /\ root = "mainloop"
    /\ event = "__init__"
    /\ events = 0
    /\ probe_in = <<0, 0>>
    /\ probe_out = None
    /\ plot = NoPlot

\* The window is open and handles events
Running == root = "mainloop" /\ events < MaxEvents

\* The user types into the entry fields
EditLocation ==
    /\ Running
    /\ \E t \in LocationTexts :
         Handled("edit", [Here EXCEPT !.gui.lat_var = t[1], !.gui.lon_var = t[2]])

EditDateTime ==
    /\ Running
    /\ \E t \in DateTimeTexts :
         Handled("edit", [Here EXCEPT !.gui.date_var = t[1], !.gui.time_var = t[2]])

EditAnimation ==
    /\ Running
    /\ \E t \in AnimationTexts :
         Handled("edit", [Here EXCEPT !.gui.duration_var = t[1], !.gui.interval_var = t[2]])

\* The buttons, the scale and the window's close box
UpdateSky ==
    /\ Running
    /\ Handled("update_sky", update_sky(Here))

UseCurrentTime ==
    /\ Running
    /\ \E now \in NowTimes : Handled("use_current_time", use_current_time(Here, now))

SetLocation ==
    /\ Running
    /\ \E l \in Presets : Handled("set_location", set_location(Here, l[1], l[2]))

UpdateMagnitude ==
    /\ Running
    /\ \E mag \in Magnitudes : Handled("update_magnitude", update_magnitude(Here, mag))

ToggleAnimation ==
    /\ Running
    /\ Handled(IF gui.animation_running THEN "stop_animation" ELSE "start_animation",
               toggle_animation(Here))

\* The animation's timer fires and hands the next frame to the callback
AnimationFrame ==
    /\ Running
    /\ \E a \in gui.animation :
         /\ a.event_source = "started"
         /\ a.frames > 0
         /\ LET st == update_animation_frame(Here, a.frame)
            IN  Handled("update_animation_frame",
                    [st EXCEPT !.gui.animation =
                        IF @ = None THEN None
                        ELSE Some([The(@) EXCEPT !.frame = (a.frame + 1) % a.frames])])

\* A callback that a stopped timer had queued is delivered after all
StaleAnimationFrame ==
    /\ events < MaxEvents
    /\ \E a \in timers.stopped :
         /\ a.frames > 0
         /\ LET st == update_animation_frame(Here, a.frame)
            IN  Handled("update_animation_frame", [st EXCEPT !.timers.stopped = None])

OnClosing ==
    /\ Running
    /\ LET st == on_closing(Here)
       IN  /\ gui' = st.gui
           /\ dialogs' = st.dialogs
           /\ event' = "on_closing"
           /\ events' = events + 1
           /\ root' = "destroyed"
           /\ timers' = st.timers
           /\ UNCHANGED <<hipparcos, sim, ret, calls, cutoff, vars_probe, vars_plot>>

NextGui ==
    \/ EditLocation \/ EditDateTime \/ EditAnimation
    \/ UpdateSky \/ UseCurrentTime \/ SetLocation \/ UpdateMagnitude
    \/ ToggleAnimation \/ AnimationFrame \/ StaleAnimationFrame \/ OnClosing

SpecGui == InitGui /\ [][NextGui]_vars

-----------------------------------------------------------------------------
(* Either program: the plotting script or the window *)

InitAnim == InitPlot \/ InitGui

NextAnim == (~IsGui(sim) /\ NextPlot) \/ NextGui

SpecAnim == InitAnim /\ [][NextAnim]_vars

-----------------------------------------------------------------------------
(* The magnitude computations on their own *)

MagDomain == { 5 * k : k \in -MagBelow .. MagAbove }

InitMag ==
    /\ hipparcos = <<>>
    /\ sim = sky_simulator_init
    /\ ret = NoCall
    /\ calls = {}
    /\ cutoff = None
    /\ plot = NoPlot
    /\ timers = NoTimers
    /\ probe_in \in MagDomain \X MagDomain
    /\ probe_out = None
    /\ gui = None
    /\ root = "destroyed"
    /\ dialogs = <<>>
    /\ event = "none"
    /\ events = 0

ProbeSize ==
    /\ probe_out' = Some([fn |-> "magnitude_to_size",
                          out |-> <<magnitude_to_size(probe_in[1]),
                                    magnitude_to_size(probe_in[2])>>])
    /\ UNCHANGED <<vars_sim, probe_in, vars_gui, vars_plot>>

ProbeGuiSize ==
    /\ probe_out' = Some([fn |-> "gui_magnitude_to_size",
                          out |-> <<gui_magnitude_to_size(probe_in[1]),
                                    gui_magnitude_to_size(probe_in[2])>>])
    /\ UNCHANGED <<vars_sim, probe_in, vars_gui, vars_plot>>

ProbeColor ==
    /\ probe_out' = Some([fn |-> "star_color",
                          out |-> <<star_color(probe_in[1]), star_color(probe_in[2])>>])
    /\ UNCHANGED <<vars_sim, probe_in, vars_gui, vars_plot>>

NextMag == ProbeSize \/ ProbeGuiSize \/ ProbeColor

SpecMag == InitMag /\ [][NextMag]_vars

-----------------------------------------------------------------------------
(* Properties *)

\* The last call was a position query / one that returned
Queried == ret.op = "get_star_positions"
QueryOk == Queried /\ ret.raised = None
Out == The(ret.value)
Raised(type) == \E e \in ret.raised : e.type = type

\* The instant a datetime denotes, in minutes: a datetime without a zone is
\* read as UTC
Instant(time) ==
    time.day * 1440 + time.hour * 60 + time.minute
        - (IF time.tzinfo = None THEN 0 ELSE The(time.tzinfo))

\* What the ephemeris reports for a catalogue row at the query's instant
Seen(row) == altaz(row, The(sim.observer_location), Instant(The(ret.time)))

Catalog == The(sim.stars_df)

\* The catalogue rows above the horizon at the query's instant, in catalogue order
Emitted == SelectSeq(Catalog, LAMBDA row : Seen(row).alt > 0)

Clamp(x, lo, hi) ==
    LET m == IF x > lo THEN x ELSE lo
    IN  IF m < hi THEN m ELSE hi

ExpectedSize(m) == Clamp(20 * (500 - m) + 100, 100, 5000)

ExpectedColor(m) ==
    CASE m < 100 -> "#87CEEB"
      [] 100 <= m /\ m < 200 -> "white"
      [] 200 <= m /\ m < 300 -> "#FFE4B5"
      [] 300 <= m /\ m < 400 -> "#FFA500"
      [] m >= 400 -> "#FF6B6B"

Ready == {"load_star_catalog", "set_observer_location"} \subseteq calls

\* C1: a query's output holds an entry for a catalogue star if and only if the
\* ephemeris reports its altitude as strictly greater than 0; a star at
\* altitude <= 0 (0 included) never appears, in either class.
C1_HorizonFilter ==
    QueryOk =>
        /\ Len(Out[2]) = Cardinality({i \in 1 .. Len(Catalog) : Seen(Catalog[i]).alt > 0})
        /\ \A k \in 1 .. Len(Out[2]) : Out[2][k] > 0
        /\ \A i \in 1 .. Len(Catalog) :
             Seen(Catalog[i]).alt > 0
                <=> \E k \in 1 .. Len(Out[1]) :
                       /\ Out[1][k] = Seen(Catalog[i]).az
                       /\ Out[2][k] = Seen(Catalog[i]).alt

\* C1 witness: a query answered with one star exactly on the horizon, one
\* above it and one below it in the catalogue
C1_Witness ==
    /\ QueryOk
    /\ \E i, j, l \in 1 .. Len(Catalog) :
         /\ Seen(Catalog[i]).alt = 0
         /\ Seen(Catalog[j]).alt > 0
         /\ Seen(Catalog[l]).alt < 0
    /\ Len(Out[1]) = 1

\* C2: a query raises ValueError exactly when load_star_catalog or
\* set_observer_location has not yet been called; it then returns nothing and
\* leaves the simulator as it was; once both have been called, it never does.
C2_Precondition ==
    /\ [](Queried =>
            /\ Raised("ValueError") <=> ~Ready
            /\ ret.raised # None => ret.value = None
            /\ Ready => ret.raised = None)
    /\ [][ret'.op = "get_star_positions" => sim' = sim]_vars

\* C2 witness: a query refused with the catalogue loaded and no observer set
C2_Witness ==
    /\ Queried
    /\ Raised("ValueError")
    /\ calls = {"load_star_catalog"}
    /\ sim.stars_df # None

C4_SizeMonotone ==
    \A p \in probe_out :
        p.fn \in {"magnitude_to_size", "gui_magnitude_to_size"} =>
            /\ probe_in[1] <= probe_in[2] => p.out[1] >= p.out[2]
            /\ \A i \in {1, 2} :
                 /\ probe_in[i] <= 255 => p.out[i] = 5000
                 /\ probe_in[i] >= 500 => p.out[i] = 100

\* C4 witness: two magnitudes on either side of the upper clamp boundary
C4_Witness ==
    \E p \in probe_out :
        /\ p.fn = "gui_magnitude_to_size"
        /\ probe_in = <<255, 260>>
        /\ p.out = <<5000, 4900>>

\* C5: the colour is a five-bucket step function of the magnitude, each bucket
\* closed below and open above: every magnitude has exactly one of the five
\* colours, 1.0 is white and 4.0 is light red.
C5_ColorBuckets ==
    \A p \in probe_out :
        p.fn = "star_color" =>
            \A i \in {1, 2} :
                /\ p.out[i] = ExpectedColor(probe_in[i])
                /\ p.out[i] \in {"#87CEEB", "white", "#FFE4B5", "#FFA500", "#FF6B6B"}
                /\ probe_in[i] = 100 => p.out[i] = "white"
                /\ probe_in[i] = 400 => p.out[i] = "#FF6B6B"

\* C5 witness: the colours of magnitude 1.0 and magnitude 4.0
C5_Witness ==
    \E p \in probe_out :
        /\ p.fn = "star_color"
        /\ probe_in = <<100, 400>>
        /\ p.out = <<"white", "#FF6B6B">>

\* C6: with the catalogue loaded and the observer set, a query at an instant
\* when no catalogue star is above the horizon (an empty catalogue included)
\* returns, and every sequence it returns is empty.
C6_NoneVisible ==
    (Queried /\ Ready /\ Emitted = <<>>) =>
        /\ ret.raised = None
        /\ ret.value # None
        /\ \A k \in 1 .. Len(Out) : Out[k] = <<>>

\* C6 witness: an answered query over a catalogue that has stars, none of them up
C6_Witness ==
    /\ QueryOk
    /\ Len(Catalog) > 0
    /\ Emitted = <<>>
    /\ IsGui(sim)

\* C7: a query with a datetime without a zone gives exactly what the query with
\* the same calendar fields and an explicit UTC zone gives.
C7_NaiveIsUtc ==
    \A time \in Times :
        time.tzinfo = None =>
            do_get_star_positions(sim, time, "UTC")
                = do_get_star_positions(sim, replace_tzinfo(time, utc), "UTC")

\* C7 witness: a query with a datetime without a zone that emitted stars
C7_Witness ==
    /\ QueryOk
    /\ The(ret.time).tzinfo = None
    /\ Len(Out[1]) > 0
    /\ ~IsGui(sim)

\* C8: an answered query returns sequences of one length (three of them, or four
\* with the colours), and position k of each describes the k-th star above the
\* horizon: its azimuth, its altitude, the size and the colour of its magnitude.
C8_ParallelSequences ==
    QueryOk =>
        /\ Len(Out) = IF IsGui(sim) THEN 4 ELSE 3
        /\ \A j \in 1 .. Len(Out) : Len(Out[j]) = Len(Emitted)
        /\ \A k \in 1 .. Len(Emitted) :
             /\ Out[1][k] = Seen(Emitted[k]).az
             /\ Out[2][k] = Seen(Emitted[k]).alt
             /\ Out[3][k] = ExpectedSize(Emitted[k].magnitude)
             /\ IsGui(sim) => Out[4][k] = ExpectedColor(Emitted[k].magnitude)

\* C8 witness: a GUI-class query that emitted two stars and skipped one in between
C8_Witness ==
    /\ QueryOk
    /\ IsGui(sim)
    /\ Len(Catalog) = 3
    /\ Seen(Catalog[1]).alt > 0
    /\ Seen(Catalog[2]).alt <= 0
    /\ Seen(Catalog[3]).alt > 0
    /\ Len(Out[4]) = 2

\* C9: set_observer_location replaces the observer and nothing else: the loaded
\* catalogue is the same after the call as before it.
C9_ObserverOnly ==
    [][ret'.op = "set_observer_location" =>
          /\ sim'.stars_df = sim.stars_df
          /\ sim'.cls = sim.cls
          /\ sim'.observer_location # None
          /\ sim'.observer_coords # None]_vars

\* C9 witness: the observer replaced after a query, the catalogue still loaded
C9_Witness ==
    /\ ret.op = "set_observer_location"
    /\ "get_star_positions" \in calls
    /\ sim.stars_df # None
    /\ Len(Catalog) > 0

\* C12: a query (answered, empty or refused) leaves the catalogue, the observer
\* location and the observer coordinates as they were, and a query repeated
\* for the same time right after gives what the first one gave.
C12_NothingPersisted ==
    [][ret'.op = "get_star_positions" =>
          /\ sim' = sim
          /\ hipparcos' = hipparcos
          /\ (Queried /\ ret'.time = ret.time) =>
                (ret'.value = ret.value /\ ret'.raised = ret.raised)]_vars

\* The rows of the catalogue file within the last cutoff
FileWithin(c) == SelectSeq(hipparcos, LAMBDA row : row.magnitude <= c)

\* C12 witness: a query that emitted some stars and skipped others, the whole
\* catalogue still in memory afterwards
C12_Witness ==
    /\ QueryOk
    /\ ~IsGui(sim)
    /\ 0 < Len(Out[1]) /\ Len(Out[1]) < Len(Catalog)
    /\ Catalog = FileWithin(The(cutoff))

\* C13: two datetimes with zones that denote one instant, whatever their
\* offsets, give the same output for the same catalogue and observer.
C13_SameInstant ==
    \A t1, t2 \in Times :
        (t1.tzinfo # None /\ t2.tzinfo # None /\ Instant(t1) = Instant(t2)) =>
            do_get_star_positions(sim, t1, "UTC") = do_get_star_positions(sim, t2, "UTC")

\* C13 witness: a query at 06:00 +08:00 answered with the stars of 17:00 -05:00
\* the day before, which are not the stars of 06:00 UTC
C13_Witness ==
    /\ QueryOk
    /\ IsGui(sim)
    /\ The(ret.time) = datetime(2, 6, 0, Some(480))
    /\ Len(Out[1]) > 0
    /\ ret.value = do_get_star_positions(sim, datetime(1, 17, 0, Some(-300)), "UTC").value
    /\ ret.value # do_get_star_positions(sim, datetime(2, 6, 0, Some(utc)), "UTC").value

\* C14: the catalogue in memory is exactly the rows of the file with magnitude
\* <= the cutoff of the last load, whatever was loaded before: a load with a
\* lower cutoff followed by one with a higher cutoff gives the rows of the
\* higher cutoff, and every emitted star has magnitude <= the last cutoff.
C14_CatalogIsFilter ==
    /\ sim.stars_df # None => (cutoff # None /\ Catalog = FileWithin(The(cutoff)))
    /\ \A c1, c2 \in Cutoffs :
          c1 <= c2 =>
            do_load_star_catalog(do_load_star_catalog(sim, c1), c2).stars_df
                = Some(FileWithin(c2))
    /\ QueryOk =>
          /\ Len(Out[3]) = Len(Emitted)
          /\ \A k \in 1 .. Len(Emitted) :
                /\ Emitted[k].magnitude <= The(cutoff)
                /\ Out[3][k] >= ExpectedSize(The(cutoff))

\* C14 witness: a reload with cutoff 6.0, after queries, that holds a star
\* fainter than 4.5
C14_Witness ==
    /\ ret.op = "load_star_catalog"
    /\ cutoff = Some(600)
    /\ "get_star_positions" \in calls
    /\ \E k \in 1 .. Len(Catalog) : Catalog[k].magnitude > 450
    /\ Len(Catalog) = 3

\* The simulator's attributes, and the object of either class that has them
Attributes(self) == <<self.stars_df, self.observer_location, self.observer_coords>>
AsPlain(self) == [self EXCEPT !.cls = "sky_simulator"]
AsGui(self) == [self EXCEPT !.cls = "sky_simulator_gui"]

\* C15: the two classes agree up to the colours: from the same attributes, the
\* same load or observer call leaves the same attributes, and the same query
\* raises the same error or returns the same azimuths, altitudes and sizes,
\* the class of the window adding the colours as a fourth sequence.
C15_VariantsAgree ==
    LET a == AsPlain(sim)
        b == AsGui(sim)
    IN  /\ \A c \in Cutoffs :
              Attributes(load_star_catalog(a, c)) = Attributes(gui_load_star_catalog(b, c))
        /\ \A site \in Sites :
              Attributes(set_observer_location(a, site[1], site[2], site[3]))
                = Attributes(gui_set_observer_location(b, site[1], site[2], site[3]))
        /\ \A time \in Times, timezone \in TimezoneNames :
              LET p == get_star_positions(a, time, timezone)
                  g == gui_get_star_positions(b, time, timezone)
              IN  /\ p.raised = g.raised
                  /\ (p.value = None) = (g.value = None)
                  /\ p.value # None =>
                        /\ Len(The(p.value)) = 3
                        /\ Len(The(g.value)) = 4
                        /\ SubSeq(The(g.value), 1, 3) = The(p.value)
                  /\ Attributes(after_get_star_positions(a, time, timezone))
                        = Attributes(gui_after_get_star_positions(b, time, timezone))

\* C15 witness: a query of the window's class, with one star above and one
\* exactly on the horizon, answered as the other class answers it
C15_Witness ==
    /\ QueryOk
    /\ IsGui(sim)
    /\ Len(Out[1]) > 0
    /\ \E i \in 1 .. Len(Catalog) : Seen(Catalog[i]).alt = 0
    /\ SubSeq(Out, 1, 3)
          = The(get_star_positions(AsPlain(sim), The(ret.time), The(ret.timezone)).value)

\* What a plotting call raised, printed and drew
Shown(res) == <<res.raised, res.printed, res.figure>>

\* C20: the timezone argument changes nothing: a query gives the same result
\* for any two zone names, and so do plot_sky, create_star_trails and
\* animate_sky, which hand the name on; a datetime without a zone is read as
\* UTC whatever zone is named.
C20_TimezoneIgnored ==
    /\ \A time \in Times, tz \in TimezoneNames :
          /\ do_get_star_positions(sim, time, tz) = do_get_star_positions(sim, time, "UTC")
          /\ time.tzinfo = None =>
                do_get_star_positions(sim, time, tz)
                    = do_get_star_positions(sim, replace_tzinfo(time, utc), "UTC")
    /\ ~IsGui(sim) =>
          \A time \in StartTimes, tz \in TimezoneNames \ {"UTC"} :
              /\ Shown(plot_sky(sim, time, tz)) = Shown(plot_sky(sim, time, "UTC"))
              /\ Shown(create_star_trails(sim, time, 1, 30, tz))
                    = Shown(create_star_trails(sim, time, 1, 30, "UTC"))
              /\ Shown(animate_sky(sim, time, 1, 30, tz))
                    = Shown(animate_sky(sim, time, 1, 30, "UTC"))

\* C20 witness: a query for 22:00 without a zone, naming America/New_York,
\* answered with the stars of 22:00 UTC, which are not those of 22:00 -05:00
C20_Witness ==
    /\ QueryOk
    /\ ret.timezone = Some("America/New_York")
    /\ The(ret.time) = datetime(1, 22, 0, None)
    /\ Len(Out[1]) > 0
    /\ ret.value = do_get_star_positions(sim, datetime(1, 22, 0, Some(utc)), "UTC").value
    /\ ret.value # do_get_star_positions(sim, datetime(1, 22, 0, Some(-300)), "UTC").value

-----------------------------------------------------------------------------
(* Properties of the window *)

\* The date and time fields do not hold a date and a time
TimeTextBad == gui.date_var.kind # "%Y-%m-%d" \/ gui.time_var.kind # "%H:%M"

\* The latitude and longitude fields hold numbers
LocationTextOk == gui.lat_var.kind = "number" /\ gui.lon_var.kind = "number"

\* The duration and interval fields hold numbers
AnimationTextOk == gui.duration_var.kind = "number" /\ gui.interval_var.kind = "number"

\* An animation is running: the flag is set or a timer is started
AnimationActive ==
    gui.animation_running \/ \E a \in gui.animation : a.event_source = "started"

\* The last handler showed exactly one error box with this title
ErrorBox(title) == Len(dialogs) = 1 /\ dialogs[1].title = title

UpdateSkyFailed == ErrorBox("Update Error") /\ gui.status_var.text = "Error"

UpdateSkySucceeded ==
    dialogs = <<>> /\ gui.status_var.text = "Updated - stars visible"

StartAnimationFailed ==
    /\ ErrorBox("Animation Error")
    /\ ~AnimationActive
    /\ gui.animation = None
    /\ gui.animate_button = "Start Animation"

\* C10 as stated: Update Sky or Start Animation with a malformed date/time shows
\* an error box (and status "Error" for Update Sky), leaves the window open and
\* leaves no animation running; Update Sky with a well-formed date/time
\* (the other fields being well-formed) succeeds.
C10_AsStated ==
    /\ (event = "update_sky" /\ TimeTextBad) =>
          UpdateSkyFailed /\ root = "mainloop" /\ ~AnimationActive
    /\ (event = "start_animation" /\ TimeTextBad) =>
          StartAnimationFailed /\ root = "mainloop"
    /\ (event = "update_sky" /\ ~TimeTextBad /\ LocationTextOk) => UpdateSkySucceeded

\* C10, amended: Update Sky with a malformed date/time shows an "Update Error"
\* box and status "Error", leaves the window open and leaves the animation as
\* it was (running if it was running); Start Animation with a malformed
\* date/time shows an "Animation Error" box, leaves the window open and leaves
\* no animation running; either box names the date/time format when the other
\* fields read are numbers; Update Sky with a well-formed date/time and numeric
\* latitude and longitude succeeds.
C10_ParseFailure ==
    /\ [](/\ (event = "update_sky" /\ TimeTextBad) =>
                /\ UpdateSkyFailed
                /\ root = "mainloop"
                /\ LocationTextOk => dialogs[1].detail = "Invalid date/time format"
          /\ (event = "start_animation" /\ TimeTextBad) =>
                /\ StartAnimationFailed
                /\ root = "mainloop"
                /\ AnimationTextOk => dialogs[1].detail = "Invalid date/time format"
          /\ (event = "update_sky" /\ ~TimeTextBad /\ LocationTextOk) =>
                UpdateSkySucceeded)
    /\ [][event' = "update_sky" =>
            /\ gui'.animation_running = gui.animation_running
            /\ gui'.animation = gui.animation
            /\ root' = root]_vars

\* C10 witness: Update Sky refused for its date/time while an animation runs
C10_Witness ==
    /\ event = "update_sky"
    /\ TimeTextBad
    /\ LocationTextOk
    /\ UpdateSkyFailed
    /\ gui.animation_running

\* C17: the latitude and longitude the window holds, and those of the title of
\* the plot, are the simulator's observer_coords.
C17_AsStated ==
    root = "mainloop" =>
        /\ sim.observer_coords = Some(<<gui.latitude, gui.longitude>>)
        /\ \A title \in gui.ax.title :
              sim.observer_coords = Some(<<title.latitude, title.longitude>>)

\* The interval field holds the number 0
IntervalZero == gui.interval_var = str(0)

\* C18: while the window is open, animation_running is true iff an animation
\* object exists iff the button reads "Stop Animation", and at most one timer
\* runs (one iff an animation runs); the button starts an animation exactly
\* when none is running and stops one exactly when one is running; a start
\* that fails (a duration or interval that is no number, an interval of zero,
\* a malformed date/time) shows an error box and leaves the window stopped
\* with the button reading "Start Animation".
C18_AnimationStateAgrees ==
    /\ [](root = "mainloop" =>
            /\ gui.animation_running <=> gui.animation # None
            /\ gui.animation_running <=> gui.animate_button = "Stop Animation"
            /\ ~gui.animation_running <=> gui.animate_button = "Start Animation"
            /\ timers.started = IF gui.animation_running THEN 1 ELSE 0
            /\ \A a \in gui.animation : a.event_source = "started"
            /\ (event = "start_animation"
                   /\ (~AnimationTextOk \/ IntervalZero \/ TimeTextBad))
                  => StartAnimationFailed
            /\ (event = "start_animation" /\ dialogs # <<>>) => StartAnimationFailed)
    /\ [][/\ event' = "stop_animation" =>
                (gui.animation_running /\ ~gui'.animation_running)
          /\ event' = "start_animation" =>
                /\ ~gui.animation_running
                /\ gui'.animation_running \/ dialogs' # <<>>]_vars

\* C18 witness: a start refused for an interval of zero, after an earlier
\* animation was started and stopped
C18_Witness ==
    /\ root = "mainloop"
    /\ event = "start_animation"
    /\ IntervalZero
    /\ gui.duration_var.kind = "number"
    /\ ~TimeTextBad
    /\ StartAnimationFailed
    /\ dialogs[1].detail = "float division by zero"
    /\ timers.stopped # None

\* C19: a timer callback delivered while no animation is running (after
\* stop_animation or on_closing, before a new start) does nothing: no position
\* query, and the plot, the entry fields and the status text stay as they were.
C19_StaleCallbackNoOp ==
    [][(event' = "update_animation_frame" /\ ~gui.animation_running) =>
          /\ gui' = gui
          /\ ret' = ret
          /\ sim' = sim
          /\ calls' = calls
          /\ dialogs' = <<>>]_vars

\* C19 witness: a callback delivered after stop_animation, the status still
\* "Animation stopped" and the last call on the simulator still the last
\* frame's query
C19_Witness ==
    /\ event = "update_animation_frame"
    /\ ~gui.animation_running
    /\ gui.animation = None
    /\ gui.status_var.text = "Animation stopped"
    /\ timers.stopped = None
    /\ gui.ax.title # None
    /\ The(gui.ax.title).kind = "Sky Animation"

-----------------------------------------------------------------------------
(* Properties of the plotting methods *)

\* Query i of the last plotting call returned, and returned no star
QueryEmpty(i) ==
    /\ plot.res.queries[i].result.raised = None
    /\ Len(The(plot.res.queries[i].result.value)[1]) = 0

\* The last plotting call told the user that query i found no star: a printed
\* line (plot_sky; create_star_trails for its first frame) or a text in the
\* frame drawn for the query
NoStarsShown(i) ==
    \/ plot.res.op = "plot_sky" /\ plot.res.printed # <<>>
    \/ plot.res.op = "create_star_trails" /\ i = 1 /\ plot.res.printed # <<>>
    \/ \E f \in plot.res.figure : f.layers[i].text # ""

\* C11: whenever a position query of plot_sky, create_star_trails or
\* animate_sky returns no star, the call tells the user so for that query.
C11_AsStated ==
    \A i \in 1 .. Len(plot.res.queries) : QueryEmpty(i) => NoStarsShown(i)

-----------------------------------------------------------------------------
(* Properties of the frames of create_star_trails, animate_sky and the      *)
(* window's animation                                                        *)

\* floor(a / b) and the quotient cut towards zero, for b # 0
Floor(a, b) == IF b > 0 THEN a \div b ELSE (-a) \div (-b)
Trunc(a, b) == IF Floor(a, b) < 0 /\ Floor(a, b) * b # a THEN Floor(a, b) + 1 ELSE Floor(a, b)
AtLeastZero(n) == IF n > 0 THEN n ELSE 0

\* The last call on the simulator was create_star_trails or animate_sky
FramesPlotted ==
    /\ ret.op \in {"create_star_trails", "animate_sky"}
    /\ plot.res.op = ret.op
PlotDuration == The(The(plot.args).duration_hours)
PlotInterval == The(The(plot.args).interval_minutes)
PlotStart == The(plot.args).time

\* The last event started an animation of the window, with these fields
AnimationStarted == event = "start_animation" /\ dialogs = <<>>
GuiDuration == gui.duration_var.a
GuiInterval == gui.interval_var.a
GuiStart == The(parse_time(gui).value)

\* times are the instants start + i * interval for i = 0 .. n - 1
Schedule(times, n, start, interval) ==
    /\ Len(times) = AtLeastZero(n)
    /\ \A i \in 1 .. Len(times) : Instant(times[i]) = Instant(start) + (i - 1) * interval

\* times increase strictly from start and stay strictly before start + duration
Forward(times, start, duration) ==
    /\ Len(times) > 0 => Instant(times[1]) = Instant(start)
    /\ \A i \in 1 .. Len(times) - 1 : Instant(times[i]) < Instant(times[i + 1])
    /\ \A i \in 1 .. Len(times) : Instant(times[i]) < Instant(start) + duration * 60

\* The times of the queries of the last plotting call
QueryTimes == [i \in 1 .. Len(plot.res.queries) |-> plot.res.queries[i].time]

\* Every query of the last plotting call is the simulator's answer for the
\* query's own time, and the frame drawn for it shows that answer
QueriesFresh ==
    \A i \in 1 .. Len(plot.res.queries) :
        LET q == plot.res.queries[i]
        IN  /\ q.result = get_star_positions(sim, q.time, q.timezone)
            /\ \A f \in plot.res.figure :
                  q.result.value # None =>
                      f.layers[i].stars = scatter(The(q.result.value))

\* The frame the window drew last is the simulator's answer for the frame's
\* own time
FrameFresh ==
    (/\ event = "update_animation_frame"
     /\ gui.animation_running
     /\ gui.status_var.text = "Animation - Frame") =>
        LET k == gui.status_var.a
            current_time == gui.animation_times[k]
        IN  /\ ret.op = "get_star_positions"
            /\ ret.time = Some(current_time)
            /\ ret.raised = gui_get_star_positions(sim, current_time, "UTC").raised
            /\ ret.value = gui_get_star_positions(sim, current_time, "UTC").value
            /\ ret.value # None =>
                  gui.ax.scatter = draw_stars(The(ret.value), None).scatter
            /\ The(gui.ax.title).time = current_time
            /\ gui.date_var = strftime_date(current_time)
            /\ gui.time_var = strftime_time(current_time)

\* C16 as stated: the three animations have floor(duration_hours * 60 /
\* interval_minutes) frames, frame i queries the simulator afresh for
\* start_time + i * interval_minutes, and the frame times increase strictly
\* from start_time and are strictly before start_time + duration_hours.
C16_AsStated ==
    /\ (FramesPlotted /\ plot.res.raised = None) =>
          /\ Schedule(QueryTimes, Floor(PlotDuration * 60, PlotInterval),
                      PlotStart, PlotInterval)
          /\ QueriesFresh
          /\ Forward(QueryTimes, PlotStart, PlotDuration)
    /\ AnimationStarted =>
          /\ The(gui.animation).frames = Floor(GuiDuration * 60, GuiInterval)
          /\ Schedule(gui.animation_times, Floor(GuiDuration * 60, GuiInterval),
                      GuiStart, GuiInterval)
          /\ Forward(gui.animation_times, GuiStart, GuiDuration)
    /\ FrameFresh

\* C16, amended: num_frames is int(duration_hours * 60 / interval_minutes),
\* the quotient cut towards zero, and an interval of zero raises
\* ZeroDivisionError before any frame (an "Animation Error" box in the window);
\* there are num_frames frames (none when num_frames <= 0) and frame i queries
\* the simulator afresh for start_time + i * interval_minutes; a plotting call
\* on a simulator that is not ready stops at its first query with ValueError;
\* for a positive interval the frame times increase strictly from start_time
\* and are strictly before start_time + duration_hours.
C16_FrameSchedule ==
    /\ FramesPlotted =>
          /\ PlotInterval = 0 <=>
                (\E e \in plot.res.raised : e.type = "ZeroDivisionError")
          /\ PlotInterval = 0 => plot.res.queries = <<>>
          /\ QueriesFresh
          /\ (PlotInterval # 0 /\ plot.res.raised = None) =>
                /\ Schedule(QueryTimes, Trunc(PlotDuration * 60, PlotInterval),
                            PlotStart, PlotInterval)
                /\ PlotInterval > 0 => Forward(QueryTimes, PlotStart, PlotDuration)
          /\ (PlotInterval # 0 /\ plot.res.raised # None) =>
                /\ not_ready(sim)
                /\ Trunc(PlotDuration * 60, PlotInterval) > 0
                /\ QueryTimes = <<PlotStart>>
                /\ \E e \in plot.res.raised : e.type = "ValueError"
    /\ AnimationStarted =>
          /\ GuiInterval # 0
          /\ The(gui.animation).frames = Trunc(GuiDuration * 60, GuiInterval)
          /\ Schedule(gui.animation_times, Trunc(GuiDuration * 60, GuiInterval),
                      GuiStart, GuiInterval)
          /\ GuiInterval > 0 => Forward(gui.animation_times, GuiStart, GuiDuration)
    /\ (event = "start_animation" /\ AnimationTextOk /\ ~TimeTextBad /\ IntervalZero) =>
          (StartAnimationFailed /\ dialogs[1].detail = "float division by zero")
    /\ FrameFresh

\* C16 witness: create_star_trails over 2 hours every 45 minutes, drawn as two
\* frames, 45 minutes apart, with different stars
C16_Witness ==
    /\ FramesPlotted
    /\ plot.res.op = "create_star_trails"
    /\ plot.res.raised = None
    /\ PlotDuration = 2 /\ PlotInterval = 45
    /\ Len(plot.res.queries) = 2
    /\ Instant(QueryTimes[2]) = Instant(PlotStart) + 45
    /\ plot.res.queries[1].result # plot.res.queries[2].result

====
